---- MODULE Spec2Model ----
(***************************************************************************)
(* A model of the DS2408 1-Wire GPIO expander driver (class DS2408).       *)
(*                                                                         *)
(* The driver has three groups of operations that share no state:          *)
(*   - the verified read (readDeviceFile), used by every read;             *)
(*   - the activity polling loop (activityLoop / updateActivity) with the  *)
(*     listener registry (onActivity), over the activity and state         *)
(*     registers;                                                          *)
(*   - the output cache and its mutators (setOutput, sinkOutputs,          *)
(*     floatOutputs, maskedSetOutputs, readOutput), over the output        *)
(*     register, and setControls over the status_control register.         *)
(* Each group is a specification of its own over the module's variables:   *)
(* SpecRead, SpecLive, Spec (the polling loop), SpecOut, SpecWide and      *)
(* SpecCtl.                                                                *)
(*                                                                         *)
(* JavaScript runs one callback at a time: an action is one callback, from *)
(* the completion of a register access to the next await.                  *)
(***************************************************************************)
EXTENDS Integers, Sequences, FiniteSets, TLC

VARIABLES
  verificationLoops,  \* this.verificationLoops
  vread,              \* SpecRead: one readDeviceFile call and its raw reads
  loop,               \* Spec: the activityLoop / updateActivity task
  regs,               \* the device's registers: activity, state, output, status_control
  activityListeners,  \* Spec: this.activityListeners
  unregs,             \* Spec: the unregister closures onActivity returned
  notes,              \* Spec: the listener calls of the latest dispatch
  outputs,            \* SpecOut: this.outputs, the cached output byte
  ops,                \* SpecOut: the calls in flight
  done,               \* SpecOut: the call that completed last, as its caller saw it
  ctl,                \* SpecCtl: one setControls call
  calls               \* SpecOut, SpecCtl: the calls the host has made

vars == <<verificationLoops, vread, loop, regs, activityListeners, unregs,
          notes, outputs, ops, done, ctl, calls>>

readVars == <<vread>>
loopVars == <<loop, activityListeners, unregs, notes>>
outVars  == <<outputs, ops, done, calls>>
ctlVars  == <<ctl>>

----------------------------------------------------------------------------
(* Bounds of the model.                                                    *)

MaxLoops == 2       \* verificationLoops ranges over 0..MaxLoops
MaxReads == 5       \* raw reads followed within one verified read
MaxPollLoops == 1   \* verificationLoops of the polling model: 0..MaxPollLoops
MaxCalls == 2       \* onActivity calls followed
MaxOutCalls == 2    \* calls of the output methods followed after construction
MaxCtlCalls == 1    \* calls of setControls followed

----------------------------------------------------------------------------
(* JavaScript's bitwise operators on the integers the driver handles       *)
(* (two's complement; every value here is far inside the int32 range).     *)

RECURSIVE BitAnd(_, _)
BitAnd(x, y) ==
  IF x = 0 \/ y = 0 THEN 0
  ELSE IF x = -1 THEN y
  ELSE IF y = -1 THEN x
  ELSE (x % 2) * (y % 2) + 2 * BitAnd(x \div 2, y \div 2)

BitNot(x) == -x - 1

BitOr(x, y) == BitNot(BitAnd(BitNot(x), BitNot(y)))

\* Bit i of x (two's complement).
Bit(x, i) == (x \div (2 ^ i)) % 2

\* A flag that was not given (PLS?: boolean left out) and one that was.
Undefined == "undefined"
True == "true"
False == "false"
Flag == {True, False, Undefined}

\* (the bit number used as the mask: `bit = 1 << bit` left out)
setBitNoShift(x, bit, value) ==
  IF value = Undefined THEN x
  ELSE IF value = True THEN BitOr(x, bit)
  ELSE BitAnd(x, BitNot(bit))

setBit(x, bit, value) ==
  IF value = Undefined THEN x
  ELSE IF value = True THEN BitOr(x, 2 ^ bit)
  ELSE BitAnd(x, BitNot(2 ^ bit))

----------------------------------------------------------------------------
(* readDeviceFile: the verified read.                                      *)

\* `let last: number; let matches: number;`: not yet assigned. No raw read,
\* an unsigned byte, equals it.
NoValue == -1

\* The locals of a readDeviceFile call that has read nothing yet.
NewRead == [last |-> NoValue, matches |-> NoValue]

\* (matches++ left out: the streak is never counted)
readDeviceFileStepNoCount(rd, next) ==
  IF next = rd.last
    THEN [last |-> rd.last, matches |-> rd.matches]
    ELSE [last |-> next, matches |-> 0]

\* The body of the do-loop for the raw read result next.
readDeviceFileStep(rd, next) ==
  IF next = rd.last
    THEN [last |-> rd.last, matches |-> rd.matches + 1]
    ELSE [last |-> next, matches |-> 0]

\* (the condition written with <= in place of <)
readDeviceFileAgainOffByOne(rd, n) == rd.matches <= n

\* The loop's condition: another raw read follows.
readDeviceFileAgain(rd, n) == rd.matches < n

\* No call of an output method: the fields of a call, all unset.
NoOp ==
  [kind |-> "none", mask |-> NoValue, value |-> NoValue, base |-> NoValue,
   byte |-> NoValue, stage |-> "none", rd |-> NewRead, solo |-> FALSE,
   after |-> NoValue, over |-> NoValue, status |-> "none", ret |-> NoValue]

\* No setControls call: flags and read are its arguments, rd the locals of
\* its verified read, base and next the first and last value of its local
\* `next`, status what its caller got.
NoControls ==
  [pc |-> "idle",
   flags |-> [PLS |-> Undefined, CT |-> Undefined, ROS |-> Undefined,
              PORL |-> Undefined],
   read |-> FALSE, rd |-> NewRead, base |-> NoValue, next |-> NoValue,
   status |-> "none"]

----------------------------------------------------------------------------
(* SpecRead: one readDeviceFile call against a register whose raw reads    *)
(* return any sequence of bytes, or fail.                                  *)

\* The bytes a raw read returns in SpecRead.
RawBytes == {0, 5, 7}

\* readDeviceFile is called: nothing read yet, the first raw read in flight.
NewCall == [rd |-> NewRead, raw |-> <<>>, status |-> "reading", ret |-> NoValue]

InitRead ==
  /\ verificationLoops \in 0..MaxLoops
  /\ vread = NewCall
  /\ loop = [pc |-> "stopped"]
  /\ regs = [activity |-> 0, state |-> 0, output |-> 255, status_control |-> 0]
  /\ activityListeners = <<>>
  /\ unregs = <<>>
  /\ notes = <<>>
  /\ outputs = 255
  /\ ops = <<>>
  /\ done = NoOp
  /\ calls = 0
  /\ ctl = NoControls

\* readDeviceFileOnce resolves with the byte v; the do-loop's body and
\* condition run, and either the next raw read is issued or the call returns.
ReadRaw(v) ==
  /\ vread.status = "reading"
  /\ Len(vread.raw) < MaxReads
  /\ LET rd == readDeviceFileStep(vread.rd, v) IN
       vread' = [rd |-> rd,
                 raw |-> Append(vread.raw, v),
                 status |-> IF readDeviceFileAgain(rd, verificationLoops)
                              THEN "reading" ELSE "returned",
                 ret |-> IF readDeviceFileAgain(rd, verificationLoops)
                           THEN NoValue ELSE rd.last]
  /\ UNCHANGED <<verificationLoops, regs, loopVars, outVars, ctlVars>>

\* readDeviceFileOnce rejects: the await throws and the call rejects.
ReadRawFail ==
  /\ vread.status = "reading"
  /\ vread' = [vread EXCEPT !.status = "failed"]
  /\ UNCHANGED <<verificationLoops, regs, loopVars, outVars, ctlVars>>

\* The next readDeviceFile call, once the last has settled.
ReadCall ==
  /\ vread.status # "reading"
  /\ vread' = NewCall
  /\ UNCHANGED <<verificationLoops, regs, loopVars, outVars, ctlVars>>

NextRead == (\E v \in RawBytes : ReadRaw(v)) \/ ReadRawFail \/ ReadCall

SpecRead == InitRead /\ [][NextRead]_vars

\* The last n+1 of the first k raw reads all returned the same byte.
Stable(raw, k, n) ==
  /\ k >= n + 1
  /\ \A j \in (k - n)..k : raw[j] = raw[k]

\* C1: a verified read returns v exactly at the first raw read after which
\* the last verificationLoops+1 raw reads all returned v, and reads nothing
\* after that: [5,5,5] returns 5 after 3 reads and [5,7,7,7] returns 7 after
\* 4 reads for verificationLoops = 2, and verificationLoops = 0 returns the
\* first read.
C1_VerifiedRead ==
  LET raw == vread.raw
      n == verificationLoops
      len == Len(vread.raw)
  IN
  /\ vread.status = "returned" =>
       /\ len >= 1
       /\ Stable(raw, len, n)
       /\ vread.ret = raw[len]
       /\ \A k \in 1..(len - 1) : ~Stable(raw, k, n)
  /\ vread.status = "reading" => \A k \in 1..len : ~Stable(raw, k, n)
  /\ (n = 2 /\ raw = <<5, 5, 5>>) => (vread.status = "returned" /\ vread.ret = 5)
  /\ (n = 2 /\ raw = <<5, 7, 7, 7>>) => (vread.status = "returned" /\ vread.ret = 7)
  /\ (n = 2 /\ raw \in {<<5>>, <<5, 5>>, <<5, 7>>, <<5, 7, 7>>}) => vread.status # "returned"
  /\ (n = 0 /\ len = 1) => (vread.status = "returned" /\ vread.ret = raw[1])

\* A verified read that met a mismatch returned after the streak built again.
C1_Witness ==
  /\ verificationLoops = 2
  /\ vread.raw = <<5, 7, 7, 7>>
  /\ vread.status = "returned"
  /\ vread.ret = 7

----------------------------------------------------------------------------
(* SpecLive: one readDeviceFile call against a register (state) whose      *)
(* value the device changes at any moment, any number of times. No raw     *)
(* read fails, and every raw read issued resolves (weak fairness of        *)
(* RegisterRead: readFile on the 1-Wire file system returns).              *)

\* readDeviceFile is called; reads counts its raw reads, up to MaxReads.
NewLive == [rd |-> NewRead, reads |-> 0, status |-> "reading", ret |-> NoValue]

InitLive ==
  /\ verificationLoops \in 0..MaxLoops
  /\ vread = NewLive
  /\ loop = [pc |-> "stopped"]
  /\ regs \in {[activity |-> 0, state |-> v, output |-> 255, status_control |-> 0] :
                 v \in RawBytes}
  /\ activityListeners = <<>>
  /\ unregs = <<>>
  /\ notes = <<>>
  /\ outputs = 255
  /\ ops = <<>>
  /\ done = NoOp
  /\ calls = 0
  /\ ctl = NoControls

\* The raw read in flight resolves with the register's value.
RegisterRead ==
  /\ vread.status = "reading"
  /\ LET rd == readDeviceFileStep(vread.rd, regs.state) IN
       vread' = [rd |-> rd,
                 reads |-> IF vread.reads < MaxReads THEN vread.reads + 1
                                                     ELSE vread.reads,
                 status |-> IF readDeviceFileAgain(rd, verificationLoops)
                              THEN "reading" ELSE "returned",
                 ret |-> IF readDeviceFileAgain(rd, verificationLoops)
                           THEN NoValue ELSE rd.last]
  /\ UNCHANGED <<verificationLoops, regs, loopVars, outVars, ctlVars>>

\* The device changes the register's value.
RegisterChange(v) ==
  /\ v # regs.state
  /\ regs' = [regs EXCEPT !.state = v]
  /\ UNCHANGED <<verificationLoops, vread, loopVars, outVars, ctlVars>>

NextLive == RegisterRead \/ \E v \in RawBytes : RegisterChange(v)

SpecLive == InitLive /\ [][NextLive]_vars /\ WF_vars(RegisterRead)

\* C17: a verified read goes on for as long as its raw reads have not
\* returned verificationLoops+1 identical values in a row, however many raw
\* reads that takes, and returns the register's value in the step that
\* completes the streak; so either the register changes again and again for
\* ever, or the call eventually returns.
C17_NoRetryBound ==
  /\ [](vread.status = "reading" <=> vread.rd.matches < verificationLoops)
  /\ [][(vread.status = "reading" /\ vread'.status = "returned") =>
          (vread'.ret = regs.state /\ vread'.rd.last = regs.state)]_vars
  /\ ([]<><<regs' # regs>>_vars) \/ <>(vread.status = "returned")

\* With verificationLoops = 2 the call has made MaxReads raw reads, or more,
\* and has not returned.
C17_Witness ==
  /\ verificationLoops = 2
  /\ vread.reads = MaxReads
  /\ vread.status = "reading"

----------------------------------------------------------------------------
(* Spec: the activity polling loop and the listener registry.              *)

\* The callbacks the host registers: f and g return, bad throws.
Listeners == {"f", "g", "bad"}
Throws(l) == l = "bad"

\* The pins whose level changes (bits of the state and activity registers).
Pins == {0, 1}

\* updateActivity has not been entered: nothing read, nothing awaited.
\* pc: "scheduled" (setImmediate / setTimeout pending), "readActivity",
\* "clearActivity", "readState" (awaiting that access), "stopped" (the catch
\* block ran: nothing pending).  actFailed: an activity read of the loop has
\* failed (a record of the past, not a field of the program).  timers: the
\* activityLoop callbacks pending in the timer queue.  clearFailed: the
\* clearing write has failed and the state read that follows it is awaited
\* (a record of the past).
Scheduled(failed) ==
  [pc |-> "scheduled", rd |-> NewRead, a |-> NoValue, s |-> NoValue,
   actFailed |-> failed, timers |-> 1, clearFailed |-> FALSE]

\* The state the constructor leaves: setImmediate(activityLoop) pending.
Init ==
  /\ verificationLoops \in 0..MaxPollLoops
  /\ vread = [status |-> "none"]
  /\ loop = Scheduled(FALSE)
  /\ regs = [activity |-> 0, state |-> 0, output |-> 255, status_control |-> 0]
  /\ activityListeners = <<>>
  /\ unregs = <<>>
  /\ notes = <<>>
  /\ outputs = 255
  /\ ops = <<>>
  /\ done = NoOp
  /\ calls = 0
  /\ ctl = NoControls

\* A pin changes level: the chip flips its state bit and latches its
\* activity bit.
PinChange(b) ==
  /\ regs' = [regs EXCEPT
                !.activity = BitOr(regs.activity, 2 ^ b),
                !.state = IF Bit(regs.state, b) = 1
                            THEN regs.state - 2 ^ b ELSE regs.state + 2 ^ b]
  /\ UNCHANGED <<verificationLoops, vread, loop, activityListeners, unregs,
                 notes, outVars, ctlVars>>

\* (setTimeout(activityLoop) called before the await)
activityLoopTimersEager(t) == t

\* The timers pending once a timer has fired and activityLoop awaits
\* updateActivity: its setTimeout comes after the await.
activityLoopTimers(t) == t - 1

\* A pending timer fires: activityLoop calls updateActivity, which calls
\* readActivity, and the first raw read of activity is issued.
LoopStart ==
  /\ loop.timers > 0
  /\ loop' = [loop EXCEPT !.pc = "readActivity", !.rd = NewRead,
                          !.a = NoValue, !.s = NoValue,
                          !.timers = activityLoopTimers(loop.timers),
                          !.clearFailed = FALSE]
  /\ notes' = <<>>
  /\ UNCHANGED <<verificationLoops, vread, regs, activityListeners, unregs,
                 outVars, ctlVars>>

\* (only the number 0 taken for "no activity")
FalsyZeroOnly(a) == a = 0

\* (only undefined taken for "no activity")
FalsyUndefinedOnly(a) == a = NoValue

\* `!a`: a is 0, or undefined (what the .catch of a rejected readActivity
\* yields)
Falsy(a) == a = 0 \/ a = NoValue

\* (setTimeout moved out of the try block)
activityLoopAlways(rejected) == "scheduled"

\* activityLoop once updateActivity has settled: setTimeout(activityLoop)
\* after it resolved, the catch block (which schedules nothing) after it
\* rejected.
activityLoopAfter(rejected) == IF rejected THEN "stopped" ELSE "scheduled"

\* (the early return left out)
AfterActivityNoReturn(a) == "clearActivity"

\* (clearActivity() not called, or not awaited, before readState())
AfterActivityNoClear(a) ==
  IF Falsy(a) THEN activityLoopAfter(FALSE) ELSE "readState"

\* updateActivity once a is known: `if (!a) return`, else clearActivity().
AfterActivity(a) ==
  IF Falsy(a) THEN activityLoopAfter(FALSE) ELSE "clearActivity"

\* (clearActivity() awaited without its .catch)
AfterClearNoCatch(rejected) ==
  IF rejected THEN activityLoopAfter(TRUE) ELSE "readState"

\* updateActivity once clearActivity() has settled: its .catch logs a
\* rejection, and readState() is called either way.
AfterClear(rejected) == "readState"

\* The loop l as it goes on at p: setTimeout has added a timer if p is
\* "scheduled". (clearFailed is kept while the state read is awaited.)
Goes(l, p) ==
  [l EXCEPT !.pc = p, !.rd = NewRead,
            !.clearFailed = (l.clearFailed /\ p = "readState"),
            !.timers = l.timers + (IF p = "scheduled" THEN 1 ELSE 0)]

\* A raw read of activity resolves. The verified read goes on, or returns a:
\* `if (!a) return` ends the iteration and setTimeout schedules the next, a
\* non-zero a issues the clearing write.
LoopActivityRaw ==
  /\ loop.pc = "readActivity"
  /\ LET rd == readDeviceFileStep(loop.rd, regs.activity) IN
       loop' = IF readDeviceFileAgain(rd, verificationLoops)
                 THEN [loop EXCEPT !.rd = rd]
                 ELSE Goes([loop EXCEPT !.a = rd.last], AfterActivity(rd.last))
  /\ UNCHANGED <<verificationLoops, vread, regs, activityListeners, unregs,
                 notes, outVars, ctlVars>>

\* A raw read of activity rejects: readActivity rejects, the .catch logs it
\* and yields undefined, `if (!a) return` ends the iteration, and setTimeout
\* schedules the next.
LoopActivityFail ==
  /\ loop.pc = "readActivity"
  /\ loop' = Goes([loop EXCEPT !.a = NoValue, !.actFailed = TRUE],
                  AfterActivity(NoValue))
  /\ UNCHANGED <<verificationLoops, vread, regs, activityListeners, unregs,
                 notes, outVars, ctlVars>>

\* The clearing write resolves: the latch is cleared; readState issues the
\* first raw read of state.
LoopClear ==
  /\ loop.pc = "clearActivity"
  /\ regs' = [regs EXCEPT !.activity = 0]
  /\ loop' = Goes(loop, AfterClear(FALSE))
  /\ UNCHANGED <<verificationLoops, vread, activityListeners, unregs, notes,
                 outVars, ctlVars>>

\* The clearing write rejects: the .catch logs it; readState is called.
LoopClearFail ==
  /\ loop.pc = "clearActivity"
  /\ loop' = Goes([loop EXCEPT !.clearFailed = TRUE], AfterClear(TRUE))
  /\ UNCHANGED <<verificationLoops, vread, regs, activityListeners, unregs,
                 notes, outVars, ctlVars>>

\* The index of the first listener of reg that throws, 0 if none does.
FirstThrow(reg) ==
  IF \E i \in 1..Len(reg) : Throws(reg[i])
    THEN CHOOSE i \in 1..Len(reg) :
           Throws(reg[i]) /\ \A j \in 1..(i - 1) : ~Throws(reg[j])
    ELSE 0

\* (the listeners called with the state byte first)
DispatchSwapped(reg, a, s) ==
  LET n == IF FirstThrow(reg) = 0 THEN Len(reg) ELSE FirstThrow(reg) IN
  [i \in 1..n |-> <<reg[i], s, a>>]

\* activityListeners.forEach(l => l(a, s)): the calls made, in order. A
\* listener that throws ends the forEach.
Dispatch(reg, a, s) ==
  LET n == IF FirstThrow(reg) = 0 THEN Len(reg) ELSE FirstThrow(reg) IN
  [i \in 1..n |-> <<reg[i], a, s>>]

\* A raw read of state resolves. The verified read goes on, or returns s and
\* the listeners are called; if none throws setTimeout schedules the next
\* iteration, and if one does updateActivity rejects and the catch block of
\* activityLoop ends the loop.
LoopStateRaw ==
  /\ loop.pc = "readState"
  /\ LET rd == readDeviceFileStep(loop.rd, regs.state) IN
       IF readDeviceFileAgain(rd, verificationLoops)
         THEN /\ loop' = [loop EXCEPT !.rd = rd]
              /\ notes' = notes
         ELSE /\ loop' = Goes([loop EXCEPT !.s = rd.last],
                               activityLoopAfter(FirstThrow(activityListeners) # 0))
              /\ notes' = Dispatch(activityListeners, loop.a, rd.last)
  /\ UNCHANGED <<verificationLoops, vread, regs, activityListeners, unregs,
                 outVars, ctlVars>>

\* A raw read of state rejects: readState and updateActivity reject, and the
\* catch block of activityLoop ends the loop.
LoopStateFail ==
  /\ loop.pc = "readState"
  /\ loop' = Goes(loop, activityLoopAfter(TRUE))
  /\ UNCHANGED <<verificationLoops, vread, regs, activityListeners, unregs,
                 notes, outVars, ctlVars>>

\* The first index of l in reg, 0 if it is not there (indexOf, from 1).
IndexOf(reg, l) ==
  IF \E i \in 1..Len(reg) : reg[i] = l
    THEN CHOOSE i \in 1..Len(reg) :
           reg[i] = l /\ \A j \in 1..(i - 1) : reg[j] # l
    ELSE 0

\* splice(index, 1)
Splice(reg, i) == SubSeq(reg, 1, i - 1) \o SubSeq(reg, i + 1, Len(reg))

\* onActivity(l): l is pushed; the closure returned is kept, with whether
\* the host has called it yet.
OnActivity(l) ==
  /\ Len(unregs) < MaxCalls
  /\ activityListeners' = Append(activityListeners, l)
  /\ unregs' = Append(unregs, [listener |-> l, called |-> FALSE])
  /\ UNCHANGED <<verificationLoops, vread, loop, regs, notes, outVars, ctlVars>>

\* The registry after the closure of onActivity(l) has run.
Removed(reg, l) ==
  IF IndexOf(reg, l) = 0 THEN reg ELSE Splice(reg, IndexOf(reg, l))

\* The host calls the k-th closure onActivity returned.
Unregister(k) ==
  /\ activityListeners' = Removed(activityListeners, unregs[k].listener)
  /\ unregs' = [unregs EXCEPT ![k].called = TRUE]
  /\ UNCHANGED <<verificationLoops, vread, loop, regs, notes, outVars, ctlVars>>

Next ==
  \/ \E b \in Pins : PinChange(b)
  \/ LoopStart
  \/ LoopActivityRaw
  \/ LoopActivityFail
  \/ LoopClear
  \/ LoopClearFail
  \/ LoopStateRaw
  \/ LoopStateFail
  \/ \E l \in Listeners : OnActivity(l)
  \/ \E k \in 1..Len(unregs) : Unregister(k)

Spec == Init /\ [][Next]_vars

----------------------------------------------------------------------------
(* Claims about the polling loop and the listener registry (Spec).         *)

DispatchStep == loop.pc = "readState" /\ loop'.s # NoValue

C9_UnregisterOnce ==
  [][\A k \in 1..Len(unregs) :
       Unregister(k) =>
         IF unregs[k].called
           THEN activityListeners' = activityListeners
           ELSE Len(activityListeners') = Len(activityListeners) - 1]_vars

\* The latest dispatch ended with a listener that threw.
ListenerThrew == notes # <<>> /\ Throws(notes[Len(notes)][1])

\* C10 as stated: when a listener throws during dispatch the next iteration
\* is still scheduled.
C10_ThrowStillSchedules == ListenerThrew => loop.pc = "scheduled"

\* C10 as amended: after a dispatch in which a listener threw the loop is
\* stopped, and after one in which none threw the next iteration is
\* scheduled; the loop is stopped only by a listener that threw or by a
\* failed read of state.
C10_ThrowStopsLoop ==
  /\ notes # <<>> =>
       loop.pc = (IF ListenerThrew THEN "stopped" ELSE "scheduled")
  /\ loop.pc = "stopped" =>
       (ListenerThrew \/ (loop.a > 0 /\ loop.s = NoValue /\ notes = <<>>))

\* A dispatch reached a listener that threw, and the loop is stopped.
C10_Witness ==
  /\ ListenerThrew
  /\ loop.a > 0
  /\ loop.s # NoValue
  /\ loop.pc = "stopped"

\* The verified read of the register holding v completes in this step: with
\* this raw read the last verificationLoops+1 raw reads returned the same.
Completes(v) ==
  IF v = loop.rd.last THEN loop.rd.matches + 1 >= verificationLoops
                      ELSE verificationLoops <= 0

\* C12: a clearing write that fails, in an iteration that read a non-zero
\* activity byte, is swallowed: in that step the first raw read of state is
\* issued, with the activity byte kept and no register changed; and when the
\* state read of that iteration returns, the listeners are called with
\* (a, s) and, none of them throwing, the next iteration is scheduled.
C12_ClearFailureSwallowed ==
  /\ [][LoopClearFail =>
          /\ loop.a > 0
          /\ loop'.pc = "readState"
          /\ loop'.a = loop.a
          /\ loop'.rd = NewRead
          /\ regs' = regs]_vars
  /\ [][(DispatchStep /\ loop.clearFailed
           /\ \A i \in 1..Len(activityListeners) : ~Throws(activityListeners[i])) =>
          /\ notes' = [i \in 1..Len(activityListeners) |->
                         <<activityListeners[i], loop.a, loop'.s>>]
          /\ loop'.pc = "scheduled"
          /\ loop'.timers = 1]_vars

\* The clearing write failed (the latch is still set), and the iteration
\* has read state once: with one more raw read returning the same byte the
\* listener is called.
C12_Witness ==
  /\ verificationLoops = 1
  /\ loop.clearFailed
  /\ loop.pc = "readState"
  /\ loop.a = 1
  /\ regs.activity = 1
  /\ loop.rd = [last |-> regs.state, matches |-> 0]
  /\ activityListeners = <<"f">>

\* C13: within an iteration the clearing write is issued only in the step
\* in which the verified read of activity completes, the latch is written
\* only while that write is awaited, the first raw read of state is issued
\* only in the step in which the clearing write resolves or fails, and a
\* listener is called only in the step in which the verified read of state
\* completes.
C13_StepsInOrder ==
  [][/\ (loop'.pc = "clearActivity" /\ loop.pc # "clearActivity") =>
          (loop.pc = "readActivity" /\ Completes(regs.activity)
             /\ loop'.a = regs.activity)
     /\ (regs.activity # 0 /\ regs'.activity = 0) =>
          (loop.pc = "clearActivity" /\ loop'.pc = "readState")
     /\ (loop'.pc = "readState" /\ loop.pc # "readState") =>
          (loop.pc = "clearActivity" /\ loop'.rd = NewRead)
     /\ (loop.pc = "readState" /\ loop'.rd # NewRead) => loop'.pc = "readState"
     /\ (notes' # notes /\ notes' # <<>>) =>
          (loop.pc = "readState" /\ Completes(regs.state)
             /\ loop'.s = regs.state)]_vars

\* With verificationLoops = 1 an iteration read activity, cleared the latch,
\* read state and called the listener.
C13_Witness ==
  /\ verificationLoops = 1
  /\ loop.a = 3
  /\ regs.activity = 0
  /\ loop.s = regs.state
  /\ notes = <<<<"g", 3, loop.s>>>>

\* C14: at most one iteration is in flight: no timer is pending while an
\* iteration awaits a register access, at most one timer is pending at any
\* time, and a timer fires (the next iteration issues its first register
\* access) only after the previous iteration has ended and set that timer.
C14_OneIteration ==
  /\ [](/\ loop.timers \in 0..1
        /\ loop.timers = 1 <=> loop.pc = "scheduled"
        /\ loop.pc \in {"readActivity", "clearActivity", "readState"} =>
             loop.timers = 0)
  /\ [][loop'.pc = "readActivity" /\ loop'.rd = NewRead /\ loop' # loop =>
          loop.pc = "scheduled"]_vars

\* A later iteration (an earlier one's activity read had failed) awaits its
\* clearing write while the host has registered and unregistered listeners.
C14_Witness ==
  /\ loop.actFailed
  /\ loop.pc = "clearActivity"
  /\ loop.timers = 0
  /\ Len(unregs) = 2
  /\ activityListeners = <<>>

\* C15: an iteration whose verified activity byte is zero calls no
\* listener, and the next iteration is scheduled.
C15_ZeroActivity ==
  loop.a = 0 => (loop.pc = "scheduled" /\ loop.timers = 1 /\ notes = <<>>)

\* With a listener registered, an iteration read the activity byte zero.
C15_Witness ==
  /\ loop.a = 0
  /\ loop.pc = "scheduled"
  /\ activityListeners # <<>>
  /\ regs.activity = 0

\* C18: a state read that fails, in an iteration that read a non-zero
\* activity byte, calls no listener and stops the loop: no timer is set, and
\* a stopped loop takes no further step.
C18_StateFailureStops ==
  /\ [][LoopStateFail =>
          /\ loop.a > 0
          /\ loop'.pc = "stopped"
          /\ loop'.timers = 0
          /\ notes' = <<>>]_vars
  /\ [][loop.pc = "stopped" => (loop' = loop /\ notes' = notes)]_vars

\* With a listener registered the state read failed: the loop is stopped,
\* no listener was called, and the latch has been set again since.
C18_Witness ==
  /\ loop.pc = "stopped"
  /\ loop.a > 0
  /\ loop.s = NoValue
  /\ notes = <<>>
  /\ activityListeners # <<>>
  /\ regs.activity # 0

\* C19: the loop writes to activity and reads state only in an iteration
\* whose verified activity byte was non-zero; an iteration that read zero,
\* or whose activity read failed, ends in that step with no register
\* written.
C19_ClearOnlyOnActivity ==
  [][/\ (LoopClear \/ LoopClearFail \/ LoopStateRaw \/ LoopStateFail) =>
          loop.a \in 1..255
     /\ (loop.pc = "readActivity" /\ loop'.pc # "readActivity"
           /\ loop'.a \in {0, NoValue}) =>
          (loop'.pc = "scheduled" /\ regs' = regs)]_vars

\* An iteration whose activity read failed has ended, and the latch it did
\* not read is still set.
C19_Witness ==
  /\ loop.actFailed
  /\ loop.a = NoValue
  /\ loop.pc = "scheduled"
  /\ regs.activity = 3

\* C20: the clearing write erases no latched bit that the iteration's
\* activity byte does not hold.
C20_NoBitLost ==
  [][LoopClear => BitAnd(regs.activity, BitNot(loop.a)) = 0]_vars

----------------------------------------------------------------------------
(* SpecOut: the output cache, its mutators and readOutput, against an      *)
(* output register that keeps the byte last written to it.                 *)
(*                                                                         *)
(* A call in flight is a record of ops: kind, the arguments mask and       *)
(* value, byte (the argument of setOutput), stage ("io": the register      *)
(* access is in flight, "wrote": the write has reached the register and    *)
(* the promise's callbacks have not run yet) and rd (the locals of a       *)
(* verified read). Three fields record the past: base (the cache when the  *)
(* call was made), solo (no other call has been in flight with it) and     *)
(* after (for readOutput: the byte of the setOutput that had completed     *)
(* alone just before it, if one had) and over (the byte of the write that   *)
(* last resolved while the call was in flight, if one did). done is the    *)
(* call that settled last.                                                 *)

\* The bytes the output register holds when the driver is constructed.
InitOutput == {128, 176}
\* The arguments of setOutput, of sinkOutputs and floatOutputs, and of
\* maskedSetOutputs.
SetArgs == {-1, 5, 256}
Masks == {15, 48}
MaskedArgs == {<<12, 4>>}

Writers == {"setOutput", "sinkOutputs", "floatOutputs", "maskedSetOutputs"}

\* (the range check with its upper limit one too high)
InRangeOffByOne(byte) == byte >= 0 /\ byte <= 256

\* (the lower limit of the range check left out)
InRangeNoLower(byte) == byte <= 255

\* setOutput: `if (byte < 0 || byte > 255) throw new RangeError`
InRange(byte) == byte >= 0 /\ byte <= 255

\* Buffer.allocUnsafe(1).fill(value): one byte, value & 255
Buffer1(value) == BitAnd(value, 255)

\* (activity and the other files confused)
writeDeviceFileByteInverted(filename, value) ==
  IF filename = "activity" THEN Buffer1(value) ELSE 0

\* writeDeviceFile: the byte written to the file
writeDeviceFileByte(filename, value) ==
  IF filename = "activity" THEN 0 ELSE Buffer1(value)

\* (the ~ left out)
sinkOutputsByteNoNot(cache, mask) == BitAnd(cache, mask)

\* sinkOutputs: this.outputs & ~mask
sinkOutputsByte(cache, mask) == BitAnd(cache, BitNot(mask))

\* (the cache left out)
floatOutputsByteMaskOnly(cache, mask) == mask

\* floatOutputs: this.outputs | mask
floatOutputsByte(cache, mask) == BitOr(cache, mask)

\* maskedSetOutputs: (this.outputs & ~mask) | (value & mask)
maskedSetOutputsByte(cache, mask, value) ==
  BitOr(BitAnd(cache, BitNot(mask)), BitAnd(value, mask))

\* (the cache assigned whether the write resolved or rejected)
CacheOnRejectAssigned(cache, byte) == byte

\* setOutput: ret.then(() => (this.outputs = byte)) has no rejection
\* handler: the cache after the write rejected.
CacheOnReject(cache, byte) == cache

\* The constructor's this.readOutput(), and any later readOutput().
ReadOp(after) ==
  [NoOp EXCEPT !.kind = "readOutput", !.base = outputs, !.stage = "io",
               !.solo = (ops = <<>>), !.after = after]

\* The state the constructor leaves: the cache 255, its readOutput in flight.
InitOut ==
  /\ verificationLoops \in 0..MaxPollLoops
  /\ vread = [status |-> "none"]
  /\ loop = [pc |-> "stopped"]
  /\ regs \in {[activity |-> 0, state |-> 0, output |-> o, status_control |-> 0] :
                 o \in InitOutput}
  /\ activityListeners = <<>>
  /\ unregs = <<>>
  /\ notes = <<>>
  /\ outputs = 255
  /\ ops = <<[NoOp EXCEPT !.kind = "readOutput", !.base = 255, !.stage = "io",
                           !.solo = TRUE]>>
  /\ done = NoOp
  /\ ctl = NoControls
  /\ calls = 0

\* The calls in flight once another call joins them.
Joined(q) == [i \in 1..Len(q) |-> [q[i] EXCEPT !.solo = FALSE]]

Without(q, i) == SubSeq(q, 1, i - 1) \o SubSeq(q, i + 1, Len(q))

\* setOutput(byte), called by the host (kind "setOutput") or by a mutator
\* with the byte it computed: a RangeError, or the write is issued.
setOutput(kind, mask, value, byte) ==
  LET op == [NoOp EXCEPT !.kind = kind, !.mask = mask, !.value = value,
                         !.base = outputs, !.byte = byte]
  IN
  /\ calls < MaxOutCalls
  /\ calls' = calls + 1
  /\ IF InRange(byte)
       THEN /\ ops' = Append(Joined(ops),
                             [op EXCEPT !.stage = "io", !.solo = (ops = <<>>)])
            /\ done' = done
       ELSE /\ ops' = ops
            /\ done' = [op EXCEPT !.status = "RangeError", !.solo = (ops = <<>>)]
  /\ UNCHANGED <<verificationLoops, vread, regs, loopVars, outputs, ctlVars>>

SetOutput(b) == setOutput("setOutput", NoValue, b, b)

SinkOutputs(m) ==
  setOutput("sinkOutputs", m, NoValue, sinkOutputsByte(outputs, m))

FloatOutputs(m) ==
  setOutput("floatOutputs", m, NoValue, floatOutputsByte(outputs, m))

MaskedSetOutputs(m, v) ==
  setOutput("maskedSetOutputs", m, v, maskedSetOutputsByte(outputs, m, v))

\* readOutput(): the first raw read of output is issued.
ReadOutput ==
  /\ calls < MaxOutCalls
  /\ calls' = calls + 1
  /\ ops' = Append(Joined(ops),
                   ReadOp(IF ops = <<>> /\ done.kind = "setOutput"
                             /\ done.status = "ok" /\ done.solo
                            THEN done.byte ELSE NoValue))
  /\ UNCHANGED <<verificationLoops, vread, regs, loopVars, outputs, done, ctlVars>>

\* The write of call i reaches the output register.
WriteLand(i) ==
  /\ ops[i].kind \in Writers
  /\ ops[i].stage = "io"
  /\ regs' = [regs EXCEPT !.output = writeDeviceFileByte("output", ops[i].byte)]
  /\ ops' = [ops EXCEPT ![i].stage = "wrote"]
  /\ UNCHANGED <<verificationLoops, vread, loopVars, outputs, done, calls, ctlVars>>

\* The promise of call i's write resolves: the .then of setOutput assigns the
\* cache, and the caller's await returns.
WriteResolve(i) ==
  /\ ops[i].kind \in Writers
  /\ ops[i].stage = "wrote"
  /\ outputs' = ops[i].byte
  /\ done' = [ops[i] EXCEPT !.status = "ok"]
  /\ ops' = Without([j \in 1..Len(ops) |-> [ops[j] EXCEPT !.over = ops[i].byte]], i)
  /\ UNCHANGED <<verificationLoops, vread, regs, loopVars, calls, ctlVars>>

\* The write of call i rejects: the caller's await throws.
WriteFail(i) ==
  /\ ops[i].kind \in Writers
  /\ ops[i].stage = "io"
  /\ outputs' = CacheOnReject(outputs, ops[i].byte)
  /\ done' = [ops[i] EXCEPT !.status = "IoError"]
  /\ ops' = Without(ops, i)
  /\ UNCHANGED <<verificationLoops, vread, regs, loopVars, calls, ctlVars>>

\* A raw read of output by call i resolves: the verified read goes on, or
\* returns v, the .then of readOutput assigns the cache, and the caller's
\* await returns v.
ReadOutputRaw(i) ==
  /\ ops[i].kind = "readOutput"
  /\ LET rd == readDeviceFileStep(ops[i].rd, regs.output) IN
       IF readDeviceFileAgain(rd, verificationLoops)
         THEN /\ ops' = [ops EXCEPT ![i].rd = rd]
              /\ UNCHANGED <<outputs, done>>
         ELSE /\ outputs' = rd.last
              /\ done' = [ops[i] EXCEPT !.status = "ok", !.ret = rd.last,
                                         !.rd = NewRead]
              /\ ops' = Without(ops, i)
  /\ UNCHANGED <<verificationLoops, vread, regs, loopVars, calls, ctlVars>>

\* A raw read of output by call i rejects: the caller's await throws.
ReadOutputFail(i) ==
  /\ ops[i].kind = "readOutput"
  /\ done' = [ops[i] EXCEPT !.status = "IoError", !.rd = NewRead]
  /\ ops' = Without(ops, i)
  /\ UNCHANGED <<verificationLoops, vread, regs, loopVars, outputs, calls, ctlVars>>

NextOut ==
  \/ \E b \in SetArgs : SetOutput(b)
  \/ \E m \in Masks : SinkOutputs(m)
  \/ \E m \in Masks : FloatOutputs(m)
  \/ \E a \in MaskedArgs : MaskedSetOutputs(a[1], a[2])
  \/ ReadOutput
  \/ \E i \in 1..Len(ops) : WriteLand(i)
  \/ \E i \in 1..Len(ops) : WriteResolve(i)
  \/ \E i \in 1..Len(ops) : WriteFail(i)
  \/ \E i \in 1..Len(ops) : ReadOutputRaw(i)
  \/ \E i \in 1..Len(ops) : ReadOutputFail(i)

SpecOut == InitOut /\ [][NextOut]_vars

----------------------------------------------------------------------------
(* Claims about the output cache (SpecOut).                                *)

\* The calls in flight and the call that settled last.
Known == {ops[i] : i \in 1..Len(ops)} \cup {done}

\* C3: setOutput(b), b in [0,255], changes the cache to b only after its
\* write has succeeded: the cache changes only in the step in which a write
\* that has reached the register resolves, to the byte written, or a
\* readOutput returns; the step in which a write fails leaves the cache as it
\* is and hands the failure to the caller. While the call is in flight the cache is still the
\* one it was called with, after its write resolved the cache and the
\* register hold b (the register until a later call writes it), and after
\* its write failed the cache is the one it was
\* called with and the caller got the failure. (For a call alone in flight:
\* another call in flight assigns the cache too.)
C3_CacheAfterWrite ==
  /\ [](/\ \A i \in 1..Len(ops) :
            (ops[i].kind = "setOutput" /\ ops[i].solo) => outputs = ops[i].base
        /\ (done.kind = "setOutput" /\ done.solo /\ done.status = "ok") =>
             (outputs = done.value /\ (ops = <<>> => regs.output = done.value))
        /\ (done.kind = "setOutput" /\ done.solo /\ done.status = "IoError") =>
             outputs = done.base)
  /\ [][outputs' # outputs =>
          \E i \in 1..Len(ops) :
            \/ ops[i].kind \in Writers /\ ops[i].stage = "wrote"
                 /\ outputs' = ops[i].byte /\ done' = [ops[i] EXCEPT !.status = "ok"]
            \/ ops[i].kind = "readOutput" /\ done'.kind = "readOutput"
                 /\ done'.status = "ok" /\ outputs' = done'.ret]_vars
  /\ [][\A i \in 1..Len(ops) :
          (ops[i].kind = "setOutput" /\ WriteFail(i)) =>
            (outputs' = outputs /\ done'.status = "IoError"
               /\ done'.value = ops[i].value)]_vars

\* A setOutput(5) alone in flight failed, and the cache is still the byte the
\* constructor read.
C3_Witness ==
  /\ done.kind = "setOutput"
  /\ done.value = 5
  /\ done.solo
  /\ done.status = "IoError"
  /\ done.base = 176
  /\ outputs = 176

\* C4: setOutput(b) with b outside [0,255] fails with RangeError, issues no
\* write to the output register and leaves the cache unchanged.
C4_RangeError ==
  [][\A b \in SetArgs :
       ((b < 0 \/ b > 255) /\ SetOutput(b)) =>
         /\ done'.status = "RangeError"
         /\ done'.value = b
         /\ ops' = ops
         /\ regs' = regs
         /\ outputs' = outputs]_vars

\* setOutput(256) has thrown.
C4_Witness ==
  /\ done.kind = "setOutput"
  /\ done.value = 256
  /\ done.status = "RangeError"

\* C5: with no other call in flight, setOutput(b) awaited to completion and
\* then readOutput() returns b, and the cache is b afterwards.
C5_RoundTrip ==
  (done.kind = "readOutput" /\ done.status = "ok" /\ done.solo
     /\ done.after # NoValue) =>
    (done.ret = done.after /\ outputs = done.after)

\* setOutput(5) and then readOutput() have completed, each alone in flight.
C5_Witness ==
  /\ done.kind = "readOutput"
  /\ done.status = "ok"
  /\ done.solo
  /\ done.after = 5
  /\ done.ret = 5
  /\ ops = <<>>

\* What a mutator makes of bit i of the cache c.
MaskedBit(op, i) ==
  IF Bit(op.mask, i) = 0 THEN Bit(op.base, i)
  ELSE IF op.kind = "sinkOutputs" THEN 0
  ELSE IF op.kind = "floatOutputs" THEN 1
  ELSE Bit(op.value, i)

\* C6: with cache c, sinkOutputs(m) writes c & ~m, floatOutputs(m) writes
\* c | m and maskedSetOutputs(m, v) writes (c & ~m) | (v & m): a byte whose
\* bits in the mask are 0, 1 and those of v, and whose other bits are those of
\* c. When its write has resolved with no other call in flight, the cache
\* holds that byte, and so does the register until a later call writes it.
C6_MaskedWrites ==
  \A op \in Known :
    op.kind \in (Writers \ {"setOutput"}) =>
      /\ op.byte \in 0..255
      /\ \A i \in 0..7 : Bit(op.byte, i) = MaskedBit(op, i)
      /\ (op.kind = "sinkOutputs" /\ op.base = 176 /\ op.mask = 48) => op.byte = 128
      /\ (op.kind = "floatOutputs" /\ op.base = 128 /\ op.mask = 15) => op.byte = 143
      /\ (op.kind = "maskedSetOutputs" /\ op.base = 128 /\ op.mask = 12
            /\ op.value = 4) => op.byte = 132
      /\ (op = done /\ op.status = "ok" /\ op.solo) =>
           (outputs = op.byte /\ (ops = <<>> => regs.output = op.byte))

\* From the cache 176, sinkOutputs(48) alone in flight has written 128.
C6_Witness ==
  /\ done.kind = "sinkOutputs"
  /\ done.base = 176
  /\ done.mask = 48
  /\ done.status = "ok"
  /\ done.solo
  /\ outputs = 128
  /\ regs.output = 128

\* C16: a mutator computes its byte from the cache as it is when the call is
\* made, and its write's resolution assigns that byte to the cache: the bits
\* outside its mask are those of the cache at the call, whatever another
\* call's write has put into the cache in between. So of two overlapping
\* mutators whose writes both succeed, the one that resolves last undoes the
\* other's change.
C16_LostUpdate ==
  (done.kind \in (Writers \ {"setOutput"}) /\ done.status = "ok") =>
    /\ outputs = done.byte
    /\ \A i \in 0..7 :
         Bit(done.mask, i) = 0 => Bit(outputs, i) = Bit(done.base, i)

\* sinkOutputs(48) and floatOutputs(15) were both called with the cache 176;
\* the sink's write resolved first (cache 128) and the float's last: cache
\* and register hold 191, with bits 4 and 5 set again.
C16_Witness ==
  /\ done.kind = "floatOutputs"
  /\ done.mask = 15
  /\ done.base = 176
  /\ done.over = 128
  /\ done.status = "ok"
  /\ ops = <<>>
  /\ outputs = 191
  /\ regs.output = 191

----------------------------------------------------------------------------
(* SpecWide: the output methods called with masks and values that are not  *)
(* bytes (negative, or with bits above bit 7), from the state the          *)
(* constructor leaves.                                                     *)

\* Masks of sinkOutputs and floatOutputs, and (mask, value) pairs of
\* maskedSetOutputs, inside and outside the byte range.
WideMasks == {-1, 256, 51}
WideArgs == {<<-1, 256>>, <<511, 300>>}

NextWide ==
  \/ \E b \in SetArgs : SetOutput(b)
  \/ \E m \in WideMasks : SinkOutputs(m)
  \/ \E m \in WideMasks : FloatOutputs(m)
  \/ \E a \in WideArgs : MaskedSetOutputs(a[1], a[2])
  \/ ReadOutput
  \/ \E i \in 1..Len(ops) : WriteLand(i)
  \/ \E i \in 1..Len(ops) : WriteResolve(i)
  \/ \E i \in 1..Len(ops) : WriteFail(i)
  \/ \E i \in 1..Len(ops) : ReadOutputRaw(i)
  \/ \E i \in 1..Len(ops) : ReadOutputFail(i)

SpecWide == InitOut /\ [][NextWide]_vars

\* C11: the cached output byte is an integer in [0,255] in every reachable
\* state, whatever integer masks and values the mutators are called with; it
\* is 255 when the constructor returns and changes only in a step in which
\* an output read or an output write succeeds.
C11_CacheIsByte ==
  /\ outputs = 255
  /\ [](outputs \in 0..255)
  /\ [][outputs' # outputs =>
          (done'.status = "ok" /\ done'.kind \in Writers \cup {"readOutput"}
             /\ done' # done)]_vars

\* After a write had succeeded, floatOutputs(256) computed a value above 255
\* and threw; the cache is the byte it was.
C11_Witness ==
  /\ done.kind = "floatOutputs"
  /\ done.mask = 256
  /\ done.byte > 255
  /\ done.status = "RangeError"
  /\ outputs = done.base
  /\ outputs \notin {255} \cup InitOutput

----------------------------------------------------------------------------
(* SpecCtl: setControls, one call at a time, against a status_control      *)
(* register that keeps the byte last written to it.                        *)

\* The bytes status_control holds when the driver is constructed.
InitControl == {8, 165, 255}

Flags == [PLS : Flag, CT : Flag, ROS : Flag, PORL : Flag]

InitCtl ==
  /\ verificationLoops \in 0..MaxPollLoops
  /\ vread = [status |-> "none"]
  /\ loop = [pc |-> "stopped"]
  /\ regs \in {[activity |-> 0, state |-> 0, output |-> 255, status_control |-> c] :
                 c \in InitControl}
  /\ activityListeners = <<>>
  /\ unregs = <<>>
  /\ notes = <<>>
  /\ outputs = 255
  /\ ops = <<>>
  /\ done = NoOp
  /\ ctl = NoControls
  /\ calls = 0

\* setControls: the four setBit calls on next
setControlsByte(base, flags) ==
  setBit(setBit(setBit(setBit(base, 0, flags.PLS), 1, flags.CT), 2, flags.ROS),
         3, flags.PORL)

\* setControls(flags, read) is called: with read the first raw read of
\* status_control is issued, without it next starts from 0 and the write is
\* issued at once.
SetControls(flags, read) ==
  /\ ctl.pc = "idle"
  /\ calls < MaxCtlCalls
  /\ calls' = calls + 1
  /\ ctl' = IF read
              THEN [NoControls EXCEPT !.pc = "reading", !.flags = flags,
                                      !.read = TRUE]
              ELSE [NoControls EXCEPT !.pc = "writing", !.flags = flags,
                                      !.base = 0,
                                      !.next = setControlsByte(0, flags)]
  /\ UNCHANGED <<verificationLoops, vread, regs, loopVars, outputs, ops, done>>

\* A raw read of status_control resolves: the verified read goes on, or
\* returns the base value, the bits are set and the write is issued.
ControlRaw ==
  /\ ctl.pc = "reading"
  /\ LET rd == readDeviceFileStep(ctl.rd, regs.status_control) IN
       ctl' = IF readDeviceFileAgain(rd, verificationLoops)
                THEN [ctl EXCEPT !.rd = rd]
                ELSE [ctl EXCEPT !.pc = "writing", !.rd = NewRead,
                                 !.base = rd.last,
                                 !.next = setControlsByte(rd.last, ctl.flags)]
  /\ UNCHANGED <<verificationLoops, vread, regs, loopVars, outVars>>

\* A raw read of status_control rejects: setControls rejects.
ControlRawFail ==
  /\ ctl.pc = "reading"
  /\ ctl' = [ctl EXCEPT !.pc = "idle", !.rd = NewRead, !.status = "IoError"]
  /\ UNCHANGED <<verificationLoops, vread, regs, loopVars, outVars>>

\* The write of setControl resolves.
ControlWrite ==
  /\ ctl.pc = "writing"
  /\ regs' = [regs EXCEPT
                !.status_control = writeDeviceFileByte("status_control", ctl.next)]
  /\ ctl' = [ctl EXCEPT !.pc = "idle", !.status = "ok"]
  /\ UNCHANGED <<verificationLoops, vread, loopVars, outVars>>

\* The write of setControl rejects: setControls rejects.
ControlWriteFail ==
  /\ ctl.pc = "writing"
  /\ ctl' = [ctl EXCEPT !.pc = "idle", !.status = "IoError"]
  /\ UNCHANGED <<verificationLoops, vread, regs, loopVars, outVars>>

NextCtl ==
  \/ \E flags \in Flags, read \in BOOLEAN : SetControls(flags, read)
  \/ ControlRaw
  \/ ControlRawFail
  \/ ControlWrite
  \/ ControlWriteFail

SpecCtl == InitCtl /\ [][NextCtl]_vars

\* Bit i of the byte setControls writes, by the flag given for it.
FlagBit(flag, baseBit) ==
  IF flag = True THEN 1 ELSE IF flag = False THEN 0 ELSE baseBit

\* C7: setControls writes a byte whose bits 0..3 are 1 for a true flag, 0 for
\* a false one and the base value's bit for one left out (PLS, CT, ROS,
\* PORL), and whose bits 4..7 are the base value's; the base value is the
\* verified read of status_control with readFirst and 0 without. Base
\* 0b00001000 with {PLS: true, CT: false} gives 0b00001001.
C7_SetControls ==
  (ctl.next # NoValue) =>
    /\ ctl.next \in 0..255
    /\ Bit(ctl.next, 0) = FlagBit(ctl.flags.PLS, Bit(ctl.base, 0))
    /\ Bit(ctl.next, 1) = FlagBit(ctl.flags.CT, Bit(ctl.base, 1))
    /\ Bit(ctl.next, 2) = FlagBit(ctl.flags.ROS, Bit(ctl.base, 2))
    /\ Bit(ctl.next, 3) = FlagBit(ctl.flags.PORL, Bit(ctl.base, 3))
    /\ \A i \in 4..7 : Bit(ctl.next, i) = Bit(ctl.base, i)
    /\ ~ctl.read => ctl.base = 0
    /\ (ctl.read /\ ctl.pc = "writing") => ctl.base = regs.status_control
    /\ ctl.status = "ok" => regs.status_control = ctl.next
    /\ (ctl.base = 8 /\ ctl.flags.PLS = True /\ ctl.flags.CT = False
          /\ ctl.flags.ROS = Undefined /\ ctl.flags.PORL = Undefined) =>
         ctl.next = 9

\* setControls({PLS: true, CT: false}) read 0b00001000 and wrote 0b00001001.
C7_Witness ==
  /\ ctl.read
  /\ ctl.base = 8
  /\ ctl.flags = [PLS |-> True, CT |-> False, ROS |-> Undefined, PORL |-> Undefined]
  /\ ctl.status = "ok"
  /\ regs.status_control = 9

====
